---- MODULE Spec2Model ----
(***************************************************************************)
(* passgen-api: the AES-256-CTR generator (class CSPRNG), its reseed runs  *)
(* (boot, periodic timer, administrative trigger), the rejection sampler,  *)
(* the charset builder and the password derivation of src/controllers.js.  *)
(*                                                                         *)
(* Keystream bytes are symbolic.  The byte at position j (0..15) of the    *)
(* block encrypted under key k with IV (ivBase v, counter c) is named      *)
(* (k, v, 16*c + j); an OS-random byte is (0, 0, serial).  A buffer is a   *)
(* sequence of extents [k, v, lo, hi], each standing for the bytes         *)
(* (k, v, lo) .. (k, v, hi) in order: a run-length form of the byte        *)
(* sequence, kept canonical by joining adjacent extents that continue one  *)
(* another.  A key is the serial number of the HKDF derivation that        *)
(* produced it (every derivation mixes 32 fresh OS bytes as salt, so every *)
(* derivation yields a new key); 0 stands for null.                        *)
(***************************************************************************)
EXTENDS Integers, Sequences, FiniteSets, TLC

\* ------------------------------ bounds ---------------------------------
MaxRuns == 2        \* reseed runs started in one behaviour (boot included)
MaxCalls == 2       \* getBytes calls in one behaviour
MaxTime == 1        \* largest value Date.now() takes in one behaviour
ByteBits == 2       \* bits in a byte of random data (8 in the program)
MaxBase == 12       \* largest base passed to indicesFromBytes
MaxRolls == 5       \* getBytes calls of one dice request

\* ------------------------- program constants ---------------------------
BlockBytes == 16    \* one AES block of keystream per counter value
RefillMin == 4096   \* default / minimum chunk of a seeded refill
SeedBytes == 64     \* seed material requested and OS fallback length
WordBytes == 4      \* bytes read by readUInt32BE
MAX_LEN == 256      \* longest password
MAX_COUNT == 50     \* most passwords per request
DefaultLength == 24 \* length used when the body gives none
MinLength == 4      \* shortest password
StreamMin == 128    \* least bytes derivePassword draws at its start
TopUpBytes == 256   \* bytes of one top-up of the stream
MaxSides == 1000    \* most sides of a die
MaxDice == 100      \* most dice of a term
MaxRollsParam == 100 \* most evaluations per dice request

Null == 0

Min(a, b) == IF a < b THEN a ELSE b
Max(a, b) == IF a > b THEN a ELSE b
CeilDiv(a, b) == (a + b - 1) \div b

VARIABLES
  qrngEnabled,   \* QRNG_ENABLED
  qrngApiKey,    \* QRNG_API_KEY ("" when unset)
  key,           \* csprng.key     (Null or a derivation serial)
  ivBase,        \* csprng.ivBase  (Null or a derivation serial)
  counter,       \* csprng.counter
  pool,          \* csprng.pool, a sequence of symbolic bytes
  lastReseed,    \* csprng.lastReseed
  osDrawn,       \* bytes handed out so far by crypto.randomBytes in _refill
  derivations,   \* one record per completed csprng.reseed call, in order
  runs,          \* the reseed runs started so far, in start order
  timerArmed,    \* setInterval has been called
  ncalls,        \* number of completed csprng.getBytes calls
  last,          \* the last completed csprng.getBytes call: argument, result
  served,        \* the extents returned by all completed getBytes calls
  fetches,       \* number of requests sent to the QRNG service
  req,           \* the POST /v1/passwords request being handled (body, progress)
  res,           \* its response: status and passwords
  drv,           \* the running derivePassword call: its local variables
  sIn,           \* the buffer and the base indicesFromBytes is applied to
  sOut,          \* the indices it returns, and the die rolled from the first word
  csIn,          \* the opts buildCharset is applied to
  csOut,         \* what it returns or throws
  pkIn,          \* the blocks, width and seed size packing is applied to
  pkOut,         \* the bytes packBlocksToBytes and getQrngSeedBytes return
  hkIn,          \* the length hkdfSha256 is applied to
  hkOut,         \* the blocks it hashes and the bytes it returns
  adminKey,      \* ADMIN_API_KEY ("" when unset)
  serverFile,    \* the server file in use: "server.js" or "part_000"
  areq           \* the last request to the admin reseed endpoint, as answered

genVars == <<key, ivBase, counter, pool, lastReseed>>
cfgVars == <<qrngEnabled, qrngApiKey>>
vars == <<qrngEnabled, qrngApiKey, key, ivBase, counter, pool, lastReseed,
          osDrawn, derivations, runs, timerArmed, ncalls, last, served, fetches,
          req, res, drv, sIn, sOut, csIn, csOut, pkIn, pkOut, hkIn, hkOut,
          adminKey, serverFile, areq>>
reqVars == <<req, res, drv>>
pureVars == <<sIn, sOut, csIn, csOut, pkIn, pkOut, hkIn, hkOut>>
authVars == <<adminKey, serverFile, areq>>
callVars == <<ncalls, last, served>>

\* The sizes getBytes is called with: nothing, one word (rollSingleDie),
\* and a request larger than a default refill.
CallSizes == {0, 4, RefillMin + 4}

\* Byte counts a QRNG response can pack to: nothing usable, and one byte
\* more than the seed.
PackedLens == {0, SeedBytes + 1}

\* !QRNG_ENABLED || !QRNG_API_KEY  is false
Configured == qrngEnabled /\ qrngApiKey # ""

\* --------------------------- class CSPRNG ------------------------------

\* constructor()
Constructed ==
  /\ key = Null
  /\ ivBase = Null
  /\ counter = 0
  /\ pool = <<>>
  /\ lastReseed = 0

\* ------------------------- byte buffers --------------------------------
Extent(k, v, lo, hi) == [k |-> k, v |-> v, lo |-> lo, hi |-> hi]
ExtLen(e) == e.hi - e.lo + 1

\* buf.length
RECURSIVE BLen(_)
BLen(buf) == IF buf = <<>> THEN 0 ELSE ExtLen(Head(buf)) + BLen(Tail(buf))

Continues(e, f) == e.k = f.k /\ e.v = f.v /\ f.lo = e.hi + 1

\* Buffer.concat([a, b])
Concat(a, b) ==
  IF a = <<>> THEN b
  ELSE IF b = <<>> THEN a
  ELSE IF Continues(a[Len(a)], b[1])
    THEN SubSeq(a, 1, Len(a) - 1)
           \o <<[a[Len(a)] EXCEPT !.hi = b[1].hi]>>
           \o Tail(b)
    ELSE a \o b

\* buf.subarray(0, n), for 0 <= n
RECURSIVE Take(_, _)
Take(buf, n) ==
  IF n <= 0 \/ buf = <<>> THEN <<>>
  ELSE IF ExtLen(Head(buf)) <= n
    THEN <<Head(buf)>> \o Take(Tail(buf), n - ExtLen(Head(buf)))
    ELSE <<[Head(buf) EXCEPT !.hi = Head(buf).lo + n - 1]>>

\* buf.subarray(n), for 0 <= n
RECURSIVE Drop(_, _)
Drop(buf, n) ==
  IF n <= 0 \/ buf = <<>> THEN buf
  ELSE IF ExtLen(Head(buf)) <= n
    THEN Drop(Tail(buf), n - ExtLen(Head(buf)))
    ELSE <<[Head(buf) EXCEPT !.lo = Head(buf).lo + n]>> \o Tail(buf)

\* hkdfSha256(seedMaterial, salt, info, 48): the salt is the hash of 32
\* fresh OS bytes, so the output is a value no earlier derivation produced.
HkdfSerial == Len(derivations) + 1

\* _ivForCounter(cnt): ivBase with its last 8 bytes replaced by cnt
IvForCounter(cnt) == <<ivBase, cnt>>

\* 16 bytes of AES-256-CTR keystream under (k, iv)
Keystream(k, iv) ==
  <<Extent(k, iv[1], BlockBytes * iv[2], BlockBytes * iv[2] + BlockBytes - 1)>>

\* crypto.randomBytes(n)
OsBytesPage(n) ==
  IF n <= 0 THEN <<>>
  ELSE <<Extent(Null, Null, osDrawn, osDrawn + Max(n, RefillMin) - 1)>>
OsBytes(n) ==
  IF n <= 0 THEN <<>> ELSE <<Extent(Null, Null, osDrawn, osDrawn + n - 1)>>

Seeded == key # Null /\ ivBase # Null

\* _refill(minBytes), seeded: the number of 16-byte blocks generated
RefillBlocksExact(minBytes) == CeilDiv(minBytes, BlockBytes)
RefillBlocks(minBytes) == CeilDiv(Max(RefillMin, minBytes), BlockBytes)

\* _refill(minBytes), seeded: the loop, one block per counter value
\* cnt, cnt+1, .., cnt+blocks-1, each encrypted under _ivForCounter of its
\* own counter value and copied to out at offset 16*i.  The blocks of
\* consecutive counter values under one (key, ivBase) continue one another
\* in the naming of bytes, so out is the first block extended to the last.
RefillLoop(cnt, blocks) ==
  IF blocks = 0 THEN <<>>
  ELSE LET first == Keystream(key, IvForCounter(cnt))[1]
           final == Keystream(key, IvForCounter(cnt + blocks - 1))[1]
       IN <<[first EXCEPT !.hi = final.hi]>>

\* _refill(minBytes): the bytes appended to the pool
RefillOut(minBytes) ==
  IF ~Seeded THEN OsBytes(minBytes)
  ELSE RefillLoop(counter, RefillBlocks(minBytes))

\* _refill(minBytes): the counter it leaves
RefillCounterStuck(minBytes) == counter
RefillCounter(minBytes) ==
  IF ~Seeded THEN counter ELSE counter + RefillBlocks(minBytes)

\* getBytes(n): the pool after `if (this.pool.length < n) this._refill(..)`
PoolAfterRefill(n) ==
  IF BLen(pool) < n THEN Concat(pool, RefillOut(n - BLen(pool))) ELSE pool

\* getBytes(n): the counter after the optional refill
CounterAfterRefill(n) ==
  IF BLen(pool) < n THEN RefillCounter(n - BLen(pool)) ELSE counter

\* getBytes(n): the bytes returned, out = p.subarray(0, n)
GetBytesOut(p, n) == Take(p, n)

\* getBytes(n): the pool left behind, this.pool = p.subarray(n)
GetBytesKeep(p, n) == p
GetBytesRest(p, n) == Drop(p, n)

NoCall == [n |-> 0, out |-> <<>>, key |-> Null, had |-> 0, fetching |-> FALSE,
           epoch |-> 0]

\* async getBytes(n): no await in its body, so it runs to completion
GetBytesCall(n) ==
  LET p == PoolAfterRefill(n)
      out == GetBytesOut(p, n)
  IN
  /\ pool' = GetBytesRest(p, n)
  /\ counter' = CounterAfterRefill(n)
  /\ osDrawn' = (IF BLen(pool) < n /\ ~Seeded THEN osDrawn + (n - BLen(pool)) ELSE osDrawn)
  /\ ncalls' = ncalls + 1
  /\ last' = [n |-> n, out |-> out, key |-> key, had |-> BLen(pool),
              fetching |-> \E r \in 1..Len(runs) : runs[r].pc = "fetching",
              epoch |-> Len(derivations)]
  /\ served' = served \cup {out[i] : i \in 1..Len(out)}
  /\ UNCHANGED <<key, ivBase, lastReseed>>
  /\ UNCHANGED <<cfgVars, derivations, runs, timerArmed, fetches>>

\* getBytes(n), while the behaviour has calls left
GetBytes(n) ==
  /\ ncalls < MaxCalls
  /\ GetBytesCall(n)

\* Date.now() at a reseed: not before the previous reseed
Now == Max(lastReseed, 1)..MaxTime

\* reseed(seedMaterial), called by run r
ReseedKeepPool(seed, r) ==
  /\ key' = HkdfSerial
  /\ ivBase' = HkdfSerial
  /\ counter' = 0
  /\ pool' = pool
  /\ lastReseed' \in Now
  /\ derivations' = Append(derivations, [run |-> r, seed |-> seed])
ReseedKeyOnly(seed, r) ==
  /\ key' = HkdfSerial
  /\ ivBase' = HkdfSerial
  /\ counter' = counter
  /\ pool' = pool
  /\ lastReseed' \in Now
  /\ derivations' = Append(derivations, [run |-> r, seed |-> seed])
ReseedStaleCounter(seed, r) ==
  /\ key' = HkdfSerial
  /\ ivBase' = HkdfSerial
  /\ counter' = counter
  /\ pool' = <<>>
  /\ lastReseed' \in Now
  /\ derivations' = Append(derivations, [run |-> r, seed |-> seed])
Reseed(seed, r) ==
  /\ key' = HkdfSerial
  /\ ivBase' = HkdfSerial
  /\ counter' = 0
  /\ pool' = <<>>
  /\ lastReseed' \in Now
  /\ derivations' = Append(derivations, [run |-> r, seed |-> seed])

OsSeed == [src |-> "os", len |-> SeedBytes]
NoSeed == [src |-> "none", len |-> 0]


\* ------------------------- reseed runs ---------------------------------
\* A run is one call of reseedFromQrng with its caller: the boot IIFE, the
\* setInterval callback or adminController.reseedNow.
\*   pc:   "fetching"  awaiting fetch() / r.json()
\*         "fetched"   getQrngSeedBytes has returned the seed
\*         "caught"    the rejection has reached the boot IIFE's catch
\*         "failed"    the rejection was logged (timer) or answered 500 (admin)
\*         "done"      csprng.reseed has run
\*   err:  the external fetch of the run failed
\*   resp: HTTP status sent by adminController.reseedNow (0: none)
Run(kind, pc, seed, err, resp) ==
  [kind |-> kind, pc |-> pc, seed |-> seed, err |-> err, resp |-> resp]

RunIds == 1..Len(runs)
Booted == Len(runs) >= 1

OkResp(kind) == IF kind = "admin" THEN 200 ELSE 0
ErrResp(kind) == IF kind = "admin" THEN 500 ELSE 0

\* reseedFromQrng() up to its first suspension, for a new run of `kind`:
\* unconfigured, it reseeds from OS entropy at once; configured, it sends
\* the request and suspends.
StartFetchEager(kind) ==
  LET r == Len(runs) + 1 IN
  IF ~Configured
    THEN /\ Reseed(OsSeed, r)
         /\ runs' = Append(runs, Run(kind, "done", OsSeed, FALSE, OkResp(kind)))
         /\ UNCHANGED fetches
    ELSE /\ runs' = Append(runs, Run(kind, "fetching", NoSeed, FALSE, 0))
         /\ fetches' = fetches + 1
         /\ counter' = 0
         /\ pool' = <<>>
         /\ UNCHANGED <<key, ivBase, lastReseed, derivations>>
StartFetch(kind) ==
  LET r == Len(runs) + 1 IN
  IF ~Configured
    THEN /\ Reseed(OsSeed, r)
         /\ runs' = Append(runs, Run(kind, "done", OsSeed, FALSE, OkResp(kind)))
         /\ UNCHANGED fetches
    ELSE /\ runs' = Append(runs, Run(kind, "fetching", NoSeed, FALSE, 0))
         /\ fetches' = fetches + 1
         /\ UNCHANGED <<genVars, derivations>>

\* The boot IIFE, run once when the module is loaded.
BootStart ==
  /\ ~Booted
  /\ StartFetch("boot")
  /\ timerArmed' = (timerArmed \/ ~Configured)
  /\ UNCHANGED <<reqVars, pureVars, authVars, cfgVars, osDrawn, callVars>>

\* One firing of the setInterval callback.
TimerFire ==
  /\ timerArmed
  /\ Len(runs) < MaxRuns
  /\ StartFetch("timer")
  /\ UNCHANGED <<reqVars, pureVars, authVars, cfgVars, osDrawn, callVars, timerArmed>>

\* adminController.reseedNow, one request.
AdminReseed ==
  /\ Booted
  /\ Len(runs) < MaxRuns
  /\ StartFetch("admin")
  /\ UNCHANGED <<reqVars, pureVars, authVars, cfgVars, osDrawn, callVars, timerArmed>>

\* fetchOutshiftQrngBlocks / getQrngSeedBytes return: the response packed to
\* `got` bytes, truncated to SeedBytes.
FetchOk(r) ==
  /\ runs[r].pc = "fetching"
  /\ \E got \in PackedLens :
       runs' = [runs EXCEPT ![r].pc = "fetched",
                            ![r].seed = [src |-> "qrng", len |-> Min(got, SeedBytes)]]
  /\ UNCHANGED <<reqVars, pureVars, authVars, cfgVars, genVars, osDrawn, derivations, timerArmed, callVars, fetches>>

\* The fetch fails (transport error, !r.ok, no block array): the rejection
\* goes to the caller's handler.
FetchFailDropped(r) ==
  /\ runs[r].pc = "fetching"
  /\ runs' = [runs EXCEPT ![r].pc = "failed",
                          ![r].err = TRUE,
                          ![r].resp = ErrResp(runs[r].kind)]
  /\ timerArmed' = (timerArmed \/ runs[r].kind = "boot")
  /\ UNCHANGED <<reqVars, pureVars, authVars, cfgVars, genVars, osDrawn, derivations, callVars, fetches>>
FetchFailClears(r) ==
  /\ runs[r].pc = "fetching"
  /\ runs' = [runs EXCEPT ![r].pc = (IF runs[r].kind = "boot" THEN "caught" ELSE "failed"),
                          ![r].err = TRUE,
                          ![r].resp = ErrResp(runs[r].kind)]
  /\ counter' = 0
  /\ pool' = <<>>
  /\ UNCHANGED <<reqVars, pureVars, authVars, cfgVars, key, ivBase, lastReseed,
                 osDrawn, derivations, timerArmed, callVars, fetches>>
FetchFail(r) ==
  /\ runs[r].pc = "fetching"
  /\ runs' = [runs EXCEPT ![r].pc = (IF runs[r].kind = "boot" THEN "caught" ELSE "failed"),
                          ![r].err = TRUE,
                          ![r].resp = ErrResp(runs[r].kind)]
  /\ UNCHANGED <<reqVars, pureVars, authVars, cfgVars, genVars, osDrawn, derivations, timerArmed, callVars, fetches>>

\* The catch block of the boot IIFE, were it to log only (as the handler
\* of the setInterval callback does)
BootFallbackLogOnly(r) ==
  /\ runs[r].pc = "caught"
  /\ runs' = [runs EXCEPT ![r].pc = "failed"]
  /\ timerArmed' = TRUE
  /\ UNCHANGED <<reqVars, pureVars, authVars, cfgVars, genVars, osDrawn,
                 derivations, callVars, fetches>>

\* catch block of the boot IIFE: reseed from OS entropy, then setInterval.
BootFallback(r) ==
  /\ runs[r].pc = "caught"
  /\ Reseed(OsSeed, r)
  /\ runs' = [runs EXCEPT ![r].pc = "done", ![r].seed = OsSeed]
  /\ timerArmed' = TRUE
  /\ UNCHANGED <<reqVars, pureVars, authVars, cfgVars, osDrawn, callVars, fetches>>

\* await csprng.reseed(seed) in reseedFromQrng, then the caller's
\* continuation (setInterval for boot, res.json for admin).
Install(r) ==
  /\ runs[r].pc = "fetched"
  /\ Reseed(runs[r].seed, r)
  /\ runs' = [runs EXCEPT ![r].pc = "done", ![r].resp = OkResp(runs[r].kind)]
  /\ timerArmed' = (timerArmed \/ runs[r].kind = "boot")
  /\ UNCHANGED <<reqVars, pureVars, authVars, cfgVars, osDrawn, callVars, fetches>>

\* A request handler calls csprng.getBytes(n).
Call(n) ==
  /\ Booted
  /\ GetBytes(n)
  /\ UNCHANGED <<reqVars, pureVars, authVars>>

\* ------------------------- rejection sampler ---------------------------
\* Buffers of random bytes carry values here: a sequence of numbers in
\* 0 .. ByteRange-1.  A word is WordBytes bytes read big-endian, so
\* WordRange stands for 0x100000000.
ByteRange == 2 ^ ByteBits
WordRange == ByteRange ^ WordBytes
Bytes == 0..(ByteRange - 1)
Words == 0..(WordRange - 1)

\* buf.readUInt32BE(i), i counted from 0
ReadUInt32BE(buf, i) ==
  ((buf[i + 1] * ByteRange + buf[i + 2]) * ByteRange + buf[i + 3]) * ByteRange
    + buf[i + 4]

\* The buffer whose readUInt32BE(0) is w
WordToBytes(w) ==
  <<(w \div (ByteRange ^ 3)) % ByteRange, (w \div (ByteRange ^ 2)) % ByteRange,
    (w \div ByteRange) % ByteRange, w % ByteRange>>

\* Math.floor(0x100000000 / base) * base
AcceptAll(base) == WordRange
AcceptMax(base) == (WordRange \div base) * base

\* indicesFromBytes(buf, base): the words at offsets 0, 4, 8, .. that lie
\* wholly in buf, in order; each accepted word gives one index, kept here
\* with the number (from 1) of the word it was reduced from.
WordAt(buf, k) == ReadUInt32BE(buf, WordBytes * (k - 1))

IndicesFromBytes(buf, base) ==
  LET acceptMax == AcceptMax(base)
      accepted == SelectSeq([k \in 1..(Len(buf) \div WordBytes) |-> k],
                            LAMBDA k : WordAt(buf, k) < acceptMax)
  IN [j \in 1..Len(accepted) |->
        [idx |-> WordAt(buf, accepted[j]) % base, word |-> accepted[j]]]

\* rollSingleDie(sides), one draw: the value rolled from the word read, or
\* 0 when the word is in the bias zone and the die is rolled again.
DieFromWord(randomValue, sides) ==
  LET maxAcceptable == (WordRange \div sides) * sides IN
  IF randomValue >= maxAcceptable THEN 0 ELSE (randomValue % sides) + 1

\* The sampler applied to one buffer.
NotRun == [run |-> FALSE]

SamplerInputs ==
  {[buf |-> b, base |-> n] :
     n \in 2..MaxBase,
     b \in {WordToBytes(w) : w \in {0, 1, WordRange - 1}}
           \cup {<<0, 0, 0>>, WordToBytes(1) \o <<0>>}}
  \cup
  {[buf |-> WordToBytes(AcceptMax(n) - d) \o WordToBytes(e), base |-> n] :
     n \in 2..MaxBase, d \in {1, 2}, e \in {0, WordRange - 1}}
  \cup
  {[buf |-> WordToBytes(AcceptMax(n)), base |-> n] :
     n \in {m \in 2..MaxBase : AcceptMax(m) < WordRange}}

SampleRun ==
  /\ sOut = NotRun
  /\ sOut' = [run |-> TRUE,
              indices |-> IndicesFromBytes(sIn.buf, sIn.base),
              die |-> IF Len(sIn.buf) >= WordBytes
                        THEN DieFromWord(ReadUInt32BE(sIn.buf, 0), sIn.base)
                        ELSE 0]
  /\ UNCHANGED <<cfgVars, genVars, osDrawn, derivations, runs, timerArmed,
                 callVars, fetches, reqVars, authVars, sIn, csIn, csOut,
                 pkIn, pkOut, hkIn, hkOut>>

\* ------------------------- charset -------------------------------------
LOWER == <<"a", "b", "c", "d", "e", "f", "g", "h", "i", "j", "k", "l", "m",
           "n", "o", "p", "q", "r", "s", "t", "u", "v", "w", "x", "y", "z">>
UPPER == <<"A", "B", "C", "D", "E", "F", "G", "H", "I", "J", "K", "L", "M",
           "N", "O", "P", "Q", "R", "S", "T", "U", "V", "W", "X", "Y", "Z">>
DIGITS == <<"0", "1", "2", "3", "4", "5", "6", "7", "8", "9">>
DEFAULT_SYMBOLS ==
  <<"!", "@", "#", "$", "%", "^", "&", "*", "(", ")", "-", "_", "=", "+",
    "[", "]", "{", "}", ":", ";", "<", ">", ",", ".", "?">>

\* A string is the sequence of its characters; s.includes(c)
Includes(s, c) == \E i \in 1..Len(s) : s[i] = c

\* symbols || DEFAULT_SYMBOLS: the empty string is falsy
SymbolsOrDefault(symbols) == IF symbols = <<>> THEN DEFAULT_SYMBOLS ELSE symbols

\* const amb = new Set([...])
Amb == {"O", "0", "I", "l", "1", "S", "5", "B", "8", "Z", "2"}

\* Array.from(set).filter(ch => !amb.has(ch)).join('')
NotAmb(ch) == ch \notin Amb
FilterAmb(set) == SelectSeq(set, NotAmb)

\* Array.from(new Set(set)).join(''): a Set keeps insertion order and
\* ignores a value it already holds, so the characters kept are those at
\* the positions where a character occurs for the first time.
FirstAt(set, i) == \A j \in 1..(i - 1) : set[j] # set[i]

DedupNone(set) == set
Dedup(set) ==
  LET firsts == SelectSeq([i \in 1..Len(set) |-> i], LAMBDA i : FirstAt(set, i))
  IN [k \in 1..Len(firsts) |-> set[firsts[k]]]

Threw(msg) == [ok |-> FALSE, error |-> msg]
Returned(v) == [ok |-> TRUE, value |-> v]

\* buildCharset(opts)
BuildCharset(opts) ==
  LET cat == (IF opts.includeLower THEN LOWER ELSE <<>>)
               \o (IF opts.includeUpper THEN UPPER ELSE <<>>)
               \o (IF opts.includeDigits THEN DIGITS ELSE <<>>)
               \o (IF opts.includeSymbols THEN SymbolsOrDefault(opts.symbols) ELSE <<>>)
      filtered == IF opts.excludeAmbiguous THEN FilterAmb(cat) ELSE cat
      set == Dedup(filtered)
  IN IF cat = <<>> THEN Threw("Empty charset: select at least one class")
     ELSE IF Len(set) < 2 THEN Threw("Charset too small after filters")
     ELSE Returned(set)

Opts(lo, up, di, sy, symbols, amb) ==
  [includeLower |-> lo, includeUpper |-> up, includeDigits |-> di,
   includeSymbols |-> sy, symbols |-> symbols, excludeAmbiguous |-> amb]

\* Symbol strings a caller supplies: none, the default, one ambiguous
\* character, a repeated character, characters of other classes.
SymbolChoices ==
  {<<>>, DEFAULT_SYMBOLS, <<"0">>, <<"#", "#">>, <<"a", "#", "O", "a", "9", "#">>}

CharsetInputs ==
  {Opts(lo, up, di, sy, symbols, amb) :
     lo \in BOOLEAN, up \in BOOLEAN, di \in BOOLEAN, sy \in BOOLEAN,
     symbols \in SymbolChoices, amb \in BOOLEAN}

CharsetRun ==
  /\ csOut = NotRun
  /\ csOut' = [run |-> TRUE, result |-> BuildCharset(csIn)]
  /\ UNCHANGED <<cfgVars, genVars, osDrawn, derivations, runs, timerArmed,
                 callVars, fetches, reqVars, authVars, sIn, sOut, csIn,
                 pkIn, pkOut, hkIn, hkOut>>

\* ------------------------- password derivation -------------------------
\* Values of the bytes a getBytes call returns.  The generator above names
\* bytes; the bytes are random, so their values are chosen freely, here as
\* n bytes spelling the words of pat over and over.
Chunk(pat, n) ==
  [j \in 1..n |->
     WordToBytes(pat[(((j - 1) \div WordBytes) % Len(pat)) + 1])[((j - 1) % WordBytes) + 1]]

Patterns == {<<0>>, <<WordRange - 1>>, <<WordRange - 1, 0>>, <<5, 30, 47, 60>>}

\* parseInt(x, 10) || d, for an integer x: 0 and NaN are falsy
ParseIntOr(x, d) == IF x = 0 THEN d ELSE x

\* Math.min(Math.max(parseInt(count, 10) || 1, 1), MAX_COUNT)
ClampCount(count) == Min(Max(ParseIntOr(count, 1), 1), MAX_COUNT)

\* Math.min(Math.max(parseInt(length, 10) || 24, 4), MAX_LEN)
ClampLength(length) == Min(Max(ParseIntOr(length, DefaultLength), MinLength), MAX_LEN)

\* req.body with every field present; length and count 0 stand for a field
\* that is absent or does not parse.
Body(length, count, lo, up, di, sy, symbols, amb, require) ==
  [length |-> length, count |-> count, includeLower |-> lo, includeUpper |-> up,
   includeDigits |-> di, includeSymbols |-> sy, symbols |-> symbols,
   excludeAmbiguous |-> amb, requireEachClass |-> require]

Bodies ==
  {Body(0, 0, TRUE, TRUE, TRUE, TRUE, DEFAULT_SYMBOLS, TRUE, TRUE),
   Body(2, 1, TRUE, TRUE, TRUE, TRUE, DEFAULT_SYMBOLS, TRUE, TRUE),
   Body(40, 1, TRUE, TRUE, TRUE, TRUE, DEFAULT_SYMBOLS, TRUE, TRUE),
   Body(2, 1, TRUE, TRUE, TRUE, TRUE, DEFAULT_SYMBOLS, TRUE, FALSE),
   Body(2, 2, TRUE, TRUE, FALSE, FALSE, <<>>, FALSE, TRUE),
   Body(2, 1, FALSE, FALSE, FALSE, FALSE, DEFAULT_SYMBOLS, TRUE, TRUE),
   Body(2, 1, FALSE, FALSE, FALSE, TRUE, <<"0">>, TRUE, TRUE)}

\* const opts = { includeLower: !!includeLower, .. }
OptsOf(body) ==
  Opts(body.includeLower, body.includeUpper, body.includeDigits,
       body.includeSymbols, SymbolsOrDefault(body.symbols), body.excludeAmbiguous)

\* enforceRequirementsAsync: reqSets
ReqSets(opts) ==
  (IF opts.includeLower THEN <<LOWER>> ELSE <<>>)
    \o (IF opts.includeUpper THEN <<UPPER>> ELSE <<>>)
    \o (IF opts.includeDigits THEN <<DIGITS>> ELSE <<>>)
    \o (IF opts.includeSymbols THEN <<SymbolsOrDefault(opts.symbols)>> ELSE <<>>)

\* pwArray.some(c => s.includes(c))
SomeIn(pwArray, s) == \E i \in 1..Len(pwArray) : Includes(s, pwArray[i])

\* The local state of one derivePassword call.
\*   phase:  "chars" filling out, "enforce" in enforceRequirementsAsync, "done"
\*   wait:   suspended in a pullIdx closure that found no index in stream
\*   charQ, posQ: the pool arrays of the closures pickChar and pickPos
\*   si:     the position in reqSets of the set being checked
\*   pos:    the position picked for that set, -1 before pickPos returns
\*   used:   for every index taken from a pool, the word of stream it came from
NoDrv == [phase |-> "idle"]

NewDrv(length, charset, requireEachClass, opts, stream) ==
  [phase |-> "chars", wait |-> FALSE, length |-> length, charset |-> charset,
   requireEachClass |-> requireEachClass, reqSets |-> ReqSets(opts),
   stream |-> stream, out |-> <<>>, charQ |-> <<>>, posQ |-> <<>>,
   si |-> 1, pos |-> -1, used |-> <<>>]

Use(d, ix, by) == Append(d.used, [word |-> ix.word, by |-> by])

\* The for loop of derivePassword, `out.push(charset[await pickChar()])`
\* length times, once stream holds an index for the charset: pickChar
\* shifts its pool p and, each time the pool is empty, rebuilds it from the
\* whole of stream, which nothing has changed, so the i-th index it
\* returns is the i-th of p, p, p, ..
PickCharAt(p, i) == p[((i - 1) % Len(p)) + 1]

FillOut(d, p) ==
  [d EXCEPT !.out = [i \in 1..d.length |->
                       d.charset[(PickCharAt(p, i).idx % Len(d.charset)) + 1]],
            !.charQ = SubSeq(p, (d.length % Len(p)) + 1, Len(p)),
            !.used = [i \in 1..d.length |->
                        [word |-> PickCharAt(p, i).word, by |-> "char"]],
            !.phase = IF d.requireEachClass THEN "enforce" ELSE "done"]

\* derivePassword from where it stands to its next suspension in a top-up
\* or to its return.
RECURSIVE Advance(_)
Advance(d) ==
  IF d.phase = "chars" THEN
    LET p == IndicesFromBytes(d.stream, Len(d.charset)) IN
    IF d.length <= 0
      THEN Advance([d EXCEPT !.phase = IF d.requireEachClass THEN "enforce" ELSE "done"])
    ELSE IF p = <<>> THEN [d EXCEPT !.wait = TRUE]
    ELSE Advance(FillOut(d, p))
  ELSE IF d.phase = "enforce" THEN
    IF d.si > Len(d.reqSets) THEN [d EXCEPT !.phase = "done"]
    ELSE LET s == d.reqSets[d.si] IN
      IF d.pos < 0 THEN
        IF SomeIn(d.out, s) THEN Advance([d EXCEPT !.si = @ + 1])
        ELSE IF d.posQ = <<>>
          THEN LET p == IndicesFromBytes(d.stream, d.length) IN
               IF p = <<>> THEN [d EXCEPT !.wait = TRUE]
               ELSE Advance([d EXCEPT !.posQ = p])
        ELSE LET ix == Head(d.posQ) IN
             Advance([d EXCEPT !.pos = ix.idx % Len(d.out),
                               !.posQ = Tail(@),
                               !.used = Use(d, ix, "pos")])
      ELSE
        LET p == IndicesFromBytes(d.stream, Len(s)) IN
        IF p = <<>> THEN [d EXCEPT !.wait = TRUE]
        ELSE Advance([d EXCEPT !.out[d.pos + 1] = s[(p[1].idx % Len(s)) + 1],
                               !.pos = -1,
                               !.si = @ + 1,
                               !.used = Use(d, p[1], "set")])
  ELSE d

\* The request and its response.
NoReq == [pc |-> "idle"]
NoResp == [status |-> 0, passwords |-> <<>>, error |-> "", length |-> 0,
           charsetSize |-> 0]

HandlerIdle == req.pc \in {"idle", "done", "threw"}

GenUnchanged ==
  UNCHANGED <<genVars, osDrawn, callVars, cfgVars, derivations, runs,
              timerArmed, fetches>>

\* generatePasswords after a derivePassword step of request q that left d:
\* suspended in a top-up, about to derive the next password, or responding.
Finish(q, d) ==
  /\ drv' = d
  /\ IF d.wait
       THEN /\ req' = [q EXCEPT !.pc = "topup"]
            /\ UNCHANGED res
       ELSE LET out == Append(q.out, d.out) IN
            IF Len(out) < q.n
              THEN /\ req' = [q EXCEPT !.pc = "next", !.out = out]
                   /\ UNCHANGED res
              ELSE /\ req' = [q EXCEPT !.pc = "done", !.out = out]
                   /\ res' = [status |-> 200, passwords |-> out, error |-> "",
                               length |-> q.L, charsetSize |-> Len(q.charset)]

\* derivePassword(length, charset, requireEachClass, opts) up to its first
\* top-up or its return, for request q
StartDerive(q) ==
  IF q.L > MAX_LEN
    THEN /\ req' = [q EXCEPT !.pc = "threw"]
         /\ res' = [NoResp EXCEPT !.error = "length exceeds limit"]
         /\ UNCHANGED drv
         /\ GenUnchanged
    ELSE /\ GetBytes(Max(StreamMin, q.L * WordBytes))
         /\ \E pat \in Patterns :
              Finish(q, Advance(NewDrv(q.L, q.charset, q.requireEachClass, q.opts,
                                       Chunk(pat, Max(StreamMin, q.L * WordBytes)))))

\* passwordController.generatePasswords(req, res) with req.body = body, up
\* to the first top-up, the second password or the response
PwRequest(body) ==
  /\ Booted
  /\ req.pc = "idle"
  /\ UNCHANGED <<pureVars, authVars>>
  /\ IF ~Configured
       THEN /\ req' = [pc |-> "done", body |-> body]
            /\ res' = [NoResp EXCEPT !.status = 400, !.error = "QRNG not configured"]
            /\ UNCHANGED drv
            /\ GenUnchanged
       ELSE LET opts == OptsOf(body)
                charset == BuildCharset(opts)
            IN IF ~charset.ok
                 THEN /\ req' = [pc |-> "threw", body |-> body]
                      /\ res' = [NoResp EXCEPT !.error = charset.error]
                      /\ UNCHANGED drv
                      /\ GenUnchanged
                 ELSE StartDerive([pc |-> "deriving", body |-> body,
                                   n |-> ClampCount(body.count),
                                   L |-> ClampLength(body.length),
                                   opts |-> opts, charset |-> charset.value,
                                   requireEachClass |-> body.requireEachClass,
                                   out |-> <<>>])

\* stream = Buffer.concat([stream, await csprng.getBytes(256)]) and on
PwTopUp ==
  /\ req.pc = "topup"
  /\ UNCHANGED <<pureVars, authVars>>
  /\ GetBytes(TopUpBytes)
  /\ \E pat \in Patterns :
       Finish(req, Advance([drv EXCEPT !.stream = @ \o Chunk(pat, TopUpBytes),
                                       !.wait = FALSE]))

\* the next turn of `for (let i = 0; i < n; i++)`
PwNextPassword ==
  /\ req.pc = "next"
  /\ UNCHANGED <<pureVars, authVars>>
  /\ StartDerive(req)

\* ------------------------- dice ----------------------------------------
\* An expression is the sequence of its characters.
Digit(c) == Includes(DIGITS, c)
DigitVal(c) == (CHOOSE i \in 1..Len(DIGITS) : DIGITS[i] = c) - 1

\* parseInt of a string of digits
RECURSIVE DigitsVal(_)
DigitsVal(ds) ==
  IF ds = <<>> THEN 0
  ELSE 10 * DigitsVal(SubSeq(ds, 1, Len(ds) - 1)) + DigitVal(ds[Len(ds)])

\* parseInt of [+-]?\d+
ParseSigned(t) ==
  IF t[1] = "-" THEN 0 - DigitsVal(Tail(t))
  ELSE IF t[1] = "+" THEN DigitsVal(Tail(t))
  ELSE DigitsVal(t)

\* expression.toLowerCase().replace(/\s+/g, '')
ToLowerChar(c) ==
  IF Includes(UPPER, c) THEN LOWER[CHOOSE i \in 1..Len(UPPER) : UPPER[i] = c] ELSE c

CleanExpr(expression) ==
  LET kept == SelectSeq(expression, LAMBDA c : c # " ")
  IN [i \in 1..Len(kept) |-> ToLowerChar(kept[i])]

\* The length of the longest run of digits of e that starts at position i
DigitRun(e, i) ==
  CHOOSE k \in 0..Max(Len(e) - i + 1, 0) :
    /\ \A j \in i..(i + k - 1) : Digit(e[j])
    /\ (i + k > Len(e) \/ ~Digit(e[i + k]))

\* /(\d*)d(\d+)([+-]\d+)?/ matches at position i of e: the digits of
\* group 1 are the whole run at i (a shorter run leaves a digit where the
\* "d" must be), then "d", then at least one digit.
HasMatchAt(e, i) ==
  LET dpos == i + DigitRun(e, i) IN
  /\ dpos <= Len(e)
  /\ e[dpos] = "d"
  /\ DigitRun(e, dpos + 1) >= 1

\* The match at position i, every quantifier greedy: groups 1 to 3 and the
\* positions of the first and last character matched.
MatchAt(e, i) ==
  LET dpos == i + DigitRun(e, i)
      q == dpos + 1 + DigitRun(e, dpos + 1)
      ml == IF q <= Len(e) /\ e[q] \in {"+", "-"} THEN DigitRun(e, q + 1) ELSE 0
  IN [m1 |-> SubSeq(e, i, dpos - 1),
      m2 |-> SubSeq(e, dpos + 1, q - 1),
      m3 |-> IF ml > 0 THEN SubSeq(e, q, q + ml) ELSE <<>>,
      first |-> i,
      last |-> IF ml > 0 THEN q + ml ELSE q - 1]

\* The matches diceRegex.exec returns in turn, lastIndex starting at from - 1
RECURSIVE ExecAll(_, _)
ExecAll(e, from) ==
  IF \E i \in from..Len(e) : HasMatchAt(e, i)
    THEN LET i == CHOOSE x \in from..Len(e) :
                    HasMatchAt(e, x) /\ \A y \in from..(x - 1) : ~HasMatchAt(e, y)
             m == MatchAt(e, i)
         IN <<m>> \o ExecAll(e, m.last + 1)
    ELSE <<>>

\* cleanExpr.replace(/(\d*)d\d+([+-]\d+)?/g, '')
WithoutDice(e) ==
  LET ms == ExecAll(e, 1)
      left == SelectSeq([i \in 1..Len(e) |-> i],
                        LAMBDA i : \A k \in 1..Len(ms) : i < ms[k].first \/ i > ms[k].last)
  IN [j \in 1..Len(left) |-> e[left[j]]]

\* The length of the match of /[+-]?\d+/ at position i of r, 0 if none
NumberAt(r, i) ==
  IF r[i] \in {"+", "-"} /\ DigitRun(r, i + 1) >= 1 THEN 1 + DigitRun(r, i + 1)
  ELSE DigitRun(r, i)

\* r.match(/[+-]?\d+/g), an empty sequence standing for null.  The scan
\* takes a sign with the digits after it and takes every run of digits
\* whole, so a number starts at a sign that a digit follows and at the
\* first digit of a run that no sign precedes.
NumberStarts(r, i) ==
  \/ r[i] \in {"+", "-"} /\ DigitRun(r, i + 1) >= 1
  \/ Digit(r[i]) /\ (i = 1 \/ (~Digit(r[i - 1]) /\ r[i - 1] \notin {"+", "-"}))

NumberTokens(r) ==
  LET starts == SelectSeq([i \in 1..Len(r) |-> i], LAMBDA i : NumberStarts(r, i))
  IN [k \in 1..Len(starts) |->
        SubSeq(r, starts[k], starts[k] + NumberAt(r, starts[k]) - 1)]

\* parseInt(match[1]) || 1, parseInt(match[2]), match[3] ? parseInt(match[3]) : 0
NumDice(m) == ParseIntOr(IF m.m1 = <<>> THEN 0 ELSE DigitsVal(m.m1), 1)
DiceSize(m) == DigitsVal(m.m2)
ModifierUnsigned(m) == IF m.m3 = <<>> THEN 0 ELSE DigitsVal(Tail(m.m3))
Modifier(m) == IF m.m3 = <<>> THEN 0 ELSE ParseSigned(m.m3)

\* array.reduce((sum, roll) => sum + roll, 0)
RECURSIVE Sum(_)
Sum(a) == IF a = <<>> THEN 0 ELSE Head(a) + Sum(Tail(a))

\* rollSingleDie: `if (sides === 1) return 1`, before any byte is drawn
DieFixedNever(sides) == FALSE
DieFixed(sides) == sides = 1

\* The words a die may read: the least, the greatest accepted, the greatest.
DieWords(sides) == {0, Max(((WordRange \div sides) * sides) - 1, 0), WordRange - 1}

\* The local state of one parseAndRollDice call.
\*   phase:  "terms" in the while loop over the matches, "done", "threw"
\*   wait:   suspended in rollSingleDie for getBytes
\*   mi:     the number of the match being rolled
\*   draws:  getBytes calls made so far for the request
NewDice(expression, draws) ==
  [phase |-> "terms", wait |-> FALSE, expr |-> CleanExpr(expression),
   matches |-> ExecAll(CleanExpr(expression), 1), mi |-> 1, diceRolls |-> <<>>,
   total |-> 0, rolls |-> <<>>, breakdown |-> <<>>, error |-> "", draws |-> draws]

\* The standalone modifiers: total and breakdown after the second loop
AddNumbers(d, nums) ==
  [d EXCEPT !.total = @ + Sum([k \in 1..Len(nums) |-> ParseSigned(nums[k])]),
            !.breakdown = @ \o [k \in 1..Len(nums) |->
                                  [dice |-> 0, sides |-> 0, rolls |-> <<>>,
                                   modifier |-> ParseSigned(nums[k]),
                                   subtotal |-> ParseSigned(nums[k])]]]

Standalone(d) == AddNumbers(d, NumberTokens(WithoutDice(d.expr)))

\* `if (total === 0 && rolls.length === 0) throw`, else the return
Returning(e) ==
  IF e.total = 0 /\ Len(e.rolls) = 0
    THEN [e EXCEPT !.phase = "threw",
                   !.error = "No valid dice notation found in expression"]
    ELSE [e EXCEPT !.phase = "done"]

\* One pass of the while loop for the match m, the dice in d.diceRolls
\* rolled so far: a throw, the term finished, or a die to roll.
TermStep(d, m, numDice, diceSize) ==
  IF diceSize < 1 \/ diceSize > MaxSides
    THEN [d EXCEPT !.phase = "threw", !.error = "Invalid dice size"]
  ELSE IF numDice < 1 \/ numDice > MaxDice
    THEN [d EXCEPT !.phase = "threw", !.error = "Invalid number of dice"]
  ELSE IF Len(d.diceRolls) >= numDice
    THEN [d EXCEPT !.total = @ + Sum(d.diceRolls) + Modifier(m),
                   !.rolls = @ \o d.diceRolls,
                   !.breakdown = Append(@, [dice |-> numDice, sides |-> diceSize,
                                            rolls |-> d.diceRolls,
                                            modifier |-> Modifier(m),
                                            subtotal |-> Sum(d.diceRolls) + Modifier(m)]),
                   !.diceRolls = <<>>,
                   !.mi = @ + 1]
  ELSE IF DieFixed(diceSize)
    THEN [d EXCEPT !.diceRolls = [i \in 1..numDice |-> 1]]
  ELSE [d EXCEPT !.wait = TRUE]

\* parseAndRollDice from where it stands to its next getBytes, its throw
\* or its return.  A die of one side needs no byte, so the dice left of
\* such a term are rolled at once.
RECURSIVE DiceAdvance(_)
DiceAdvance(d) ==
  IF d.phase # "terms" \/ d.wait THEN d
  ELSE IF d.mi > Len(d.matches) THEN Returning(Standalone(d))
  ELSE DiceAdvance(TermStep(d, d.matches[d.mi], NumDice(d.matches[d.mi]),
                            DiceSize(d.matches[d.mi])))

\* What parseAndRollDice returns
DiceResult(d) == [total |-> d.total, rolls |-> d.rolls, breakdown |-> d.breakdown,
                  expression |-> d.expr]

\* Math.min(Math.max(parseInt(rolls, 10) || 1, 1), 100)
ClampRolls(rolls) == Min(Max(ParseIntOr(rolls, 1), 1), MaxRollsParam)

\* diceController.rollDice from a parseAndRollDice state d0 of request q on:
\* suspended in a roll, answering 400 from the catch, evaluating the
\* expression again, or answering with the results.
RECURSIVE DiceContinue(_, _)
DiceAnswer(q, d, results) ==
  IF d.wait THEN [req |-> [q EXCEPT !.pc = "rolling"], drv |-> d, res |-> NoResp]
  ELSE IF d.phase = "threw"
    THEN [req |-> [q EXCEPT !.pc = "done"], drv |-> d,
          res |-> [status |-> 400, error |-> "Invalid dice expression",
                   message |-> d.error, rolls |-> <<>>]]
  ELSE IF Len(results) < q.totalRolls
    THEN DiceContinue([q EXCEPT !.results = results],
                      NewDice(q.body.expression, d.draws))
    ELSE [req |-> [q EXCEPT !.pc = "done", !.results = results], drv |-> d,
          res |-> [status |-> 200, error |-> "", message |-> "",
                   rolls |-> results]]

DiceResults(q, d) == DiceAnswer(q, d, Append(q.results, DiceResult(d)))

DiceContinue(q, d0) == DiceResults(q, DiceAdvance(d0))

\* The request, the parse state and the response after a step
DiceSet(c) == req' = c.req /\ drv' = c.drv /\ res' = c.res

DiceBody(expression, rolls) == [expression |-> expression, rolls |-> rolls]

DiceBodies ==
  {DiceBody(<<"3", "d", "8", "+", "2", "d", "4", "+", "5">>, 1),
   DiceBody(<<"2", "d", "6", "+", "3">>, 1),
   DiceBody(<<"2", "d", "6", "-", "3">>, 1),
   DiceBody(<<"d", "1">>, 2),
   DiceBody(<<"3", "d", "1", "-", "3">>, 1),
   DiceBody(<<"0", "d", "6">>, 1),
   DiceBody(<<"1", "0", "1", "d", "6">>, 1),
   DiceBody(<<"d", "0">>, 1),
   DiceBody(<<"d", "1", "0", "0", "1">>, 1),
   DiceBody(<<"5", "-", "5">>, 1),
   DiceBody(<<"5">>, 1),
   DiceBody(<<"x">>, 1),
   DiceBody(<<>>, 1),
   DiceBody(<<"2", " ", "D", "4">>, 0),
   DiceBody(<<"d", "6", "+", "d", "1">>, 1),
   DiceBody(<<"1", "d", "4", "+", "2", "+", "3">>, 1),
   DiceBody(<<"d", "4">>, 2)}

\* diceController.rollDice(req, res) with req.body = body, up to its first
\* getBytes or its response
DiceRequest(body) ==
  /\ Booted
  /\ req.pc = "idle"
  /\ UNCHANGED <<pureVars, authVars>>
  /\ GenUnchanged
  /\ IF body.expression = <<>>
       THEN /\ req' = [pc |-> "done", kind |-> "roll", body |-> body]
            /\ res' = [status |-> 400, error |-> "Dice expression required",
                       message |-> "", rolls |-> <<>>]
            /\ UNCHANGED drv
       ELSE DiceSet(DiceContinue([pc |-> "rolling", kind |-> "roll", body |-> body,
                                  totalRolls |-> ClampRolls(body.rolls),
                                  results |-> <<>>],
                                 NewDice(body.expression, 0)))

\* rollSingleDie returns roll, or draws again where roll is 0
Rolled(d, roll) ==
  IF roll = 0 THEN [d EXCEPT !.draws = @ + 1]
  ELSE [d EXCEPT !.draws = @ + 1, !.wait = FALSE, !.diceRolls = Append(@, roll)]

\* rollSingleDie: csprng.getBytes(4), readUInt32BE(0), then the roll is
\* kept or the die is rolled again; and on to the next getBytes
DiceRoll ==
  /\ req.pc = "rolling"
  /\ drv.draws < MaxRolls
  /\ UNCHANGED <<pureVars, authVars>>
  /\ GetBytesCall(WordBytes)
  /\ \E randomValue \in DieWords(DiceSize(drv.matches[drv.mi])) :
       DiceSet(DiceContinue(req,
                 Rolled(drv, DieFromWord(randomValue, DiceSize(drv.matches[drv.mi])))))

\* ------------------------- specifications ------------------------------
ReqIdle == req = NoReq /\ res = NoResp /\ drv = NoDrv
SamplerIdle == sIn = NotRun /\ sOut = NotRun
CharsetIdle == csIn = NotRun /\ csOut = NotRun
PackIdle == pkIn = NotRun /\ pkOut = NotRun
HkdfIdle == hkIn = NotRun /\ hkOut = NotRun
PureIdle == SamplerIdle /\ CharsetIdle /\ PackIdle /\ HkdfIdle

\* No request to the admin endpoint yet.  Where the router is not part of
\* the specification, adminController.reseedNow is entered directly.
NoAreq == [status |-> 0, ran |-> FALSE]
AuthIdle == adminKey = "a" /\ serverFile = "part_000" /\ areq = NoAreq

GenInit ==
  /\ Constructed
  /\ osDrawn = 0
  /\ derivations = <<>>
  /\ runs = <<>>
  /\ timerArmed = FALSE
  /\ ncalls = 0
  /\ last = NoCall
  /\ served = {}
  /\ fetches = 0

Init ==
  /\ qrngEnabled \in BOOLEAN
  /\ qrngApiKey \in {"", "k"}
  /\ GenInit
  /\ ReqIdle
  /\ PureIdle
  /\ AuthIdle

\* The generator, its reseed runs and getBytes calls.
Next ==
  \/ BootStart
  \/ TimerFire
  \/ AdminReseed
  \/ \E r \in RunIds : FetchOk(r)
  \/ \E r \in RunIds : FetchFail(r)
  \/ \E r \in RunIds : BootFallback(r)
  \/ \E r \in RunIds : Install(r)
  \/ \E n \in CallSizes : Call(n)

Spec == Init /\ [][Next]_vars

\* POST /v1/passwords served beside the reseed runs.  The awaits of the
\* handler are all on promises that are already settled, so no timer or
\* I/O callback runs between its steps.
ReseedStep ==
  /\ HandlerIdle
  /\ \/ BootStart
     \/ TimerFire
     \/ AdminReseed
     \/ \E r \in RunIds : FetchOk(r)
     \/ \E r \in RunIds : FetchFail(r)
     \/ \E r \in RunIds : BootFallback(r)
     \/ \E r \in RunIds : Install(r)

NextPw ==
  \/ ReseedStep
  \/ \E body \in Bodies : PwRequest(body)
  \/ PwTopUp
  \/ PwNextPassword

SpecPw == Init /\ [][NextPw]_vars

\* POST /v1/roll served beside the reseed runs; its awaits, too, are all
\* on settled promises.
NextDice ==
  \/ ReseedStep
  \/ \E body \in DiceBodies : DiceRequest(body)
  \/ DiceRoll

SpecDice == Init /\ [][NextDice]_vars

\* indicesFromBytes and rollSingleDie applied to a buffer
InitSampler ==
  /\ qrngEnabled = FALSE
  /\ qrngApiKey = ""
  /\ GenInit
  /\ ReqIdle
  /\ AuthIdle
  /\ sIn \in SamplerInputs
  /\ sOut = NotRun
  /\ CharsetIdle
  /\ PackIdle
  /\ HkdfIdle

SpecSampler == InitSampler /\ [][SampleRun]_vars

\* buildCharset applied to opts
InitCharset ==
  /\ qrngEnabled = FALSE
  /\ qrngApiKey = ""
  /\ GenInit
  /\ ReqIdle
  /\ AuthIdle
  /\ SamplerIdle
  /\ csIn \in CharsetInputs
  /\ csOut = NotRun
  /\ PackIdle
  /\ HkdfIdle

SpecCharset == InitCharset /\ [][CharsetRun]_vars

\* ------------------------- properties: generator -----------------------
InstalledBy(r) == \E i \in 1..Len(derivations) : derivations[i].run = r
InProgress(r) == runs[r].pc \in {"fetching", "fetched", "caught"}
Overlap(e, f) == e.k = f.k /\ e.v = f.v /\ e.lo <= f.hi /\ f.lo <= e.hi
CallStep == ncalls' # ncalls
InstallStep == Len(derivations') # Len(derivations)

\* C1: after a completed reseed, and until the next getBytes, counter is 0
\* and the pool is empty; and a getBytes call made with a key installed
\* returns only bytes of that key's keystream (none of an earlier key, none
\* of the OS fallback).
C1_ReseedDropsStaleKeystream ==
  /\ (derivations # <<>> /\ (ncalls = 0 \/ last.epoch < Len(derivations)))
       => (counter = 0 /\ pool = <<>>)
  /\ (ncalls > 0 /\ last.key # Null)
       => \A i \in 1..Len(last.out) :
            last.out[i].k = last.key /\ last.out[i].v = last.key

\* C1 witness: keystream of key 1 was served (which leaves a remainder in
\* the pool), a later reseed installed key 2, and getBytes has served since.
C1_Witness ==
  /\ ncalls = 2
  /\ last.key = 2
  /\ last.n > 0
  /\ \E e \in served : e.k = 1

C3_RunsExclusive ==
  /\ Cardinality({r \in RunIds : InProgress(r)}) <= 1
  /\ \A i, j \in 1..Len(derivations) :
       i < j => derivations[i].run < derivations[j].run

\* C3 amended: runs may overlap and install out of start order; what is
\* serialized is the installation: a step installs for one run only, that
\* run has not installed before, and the step replaces key, ivBase, counter
\* and pool together (a fresh key with its IV base, counter 0, empty pool).
C3_InstallAtomic ==
  [][InstallStep =>
       /\ Len(derivations') = Len(derivations) + 1
       /\ ~InstalledBy(derivations'[Len(derivations')].run)
       /\ key' = Len(derivations') /\ ivBase' = key'
       /\ counter' = 0
       /\ pool' = <<>>
       /\ lastReseed' >= lastReseed]_vars

\* C3 witness: two runs overlapped and the later one installed first.
C3_Witness ==
  /\ Len(derivations) = 2
  /\ derivations[1].run > derivations[2].run
  /\ counter > 0

\* C4: a run changes the generator only once its fetch has completed:
\* starting a fetch changes nothing; while a run is fetching, the only
\* changes to the generator are getBytes calls and installations of other
\* runs; and a getBytes call made while a fetch is pending returns its n
\* bytes from the state as it is (the installed key's keystream, or OS
\* bytes when unseeded), getBytes never being disabled by a pending fetch.
C4_NoChangeWhileFetching ==
  /\ [][/\ (Len(runs') > Len(runs) /\ runs'[Len(runs')].pc = "fetching")
             => UNCHANGED genVars
        /\ (~CallStep /\ genVars' # genVars) => InstallStep
        /\ \A r \in RunIds :
             (runs[r].pc = "fetching" /\ InstallStep)
               => derivations'[Len(derivations')].run # r
        /\ (CallStep /\ last'.fetching)
             => /\ BLen(last'.out) = last'.n
                /\ UNCHANGED <<key, ivBase, lastReseed>>
                /\ \A i \in 1..Len(last'.out) : last'.out[i].k = key]_vars
  /\ []((Booted /\ ncalls < MaxCalls) => \A n \in CallSizes : ENABLED Call(n))

\* C4 witness: getBytes served keystream of the installed key while a later
\* run's fetch was pending.
C4_Witness ==
  /\ ncalls > 0
  /\ last.fetching
  /\ last.key # Null
  /\ last.n > 0
  /\ \E r \in RunIds : runs[r].pc = "fetching"

\* C9: getBytes(n) returns exactly n bytes; they are the front of the pool
\* (after the refill), and what stays in the pool is the rest, so the bytes
\* returned are none that an earlier call returned and no byte appears twice
\* in one result; key, ivBase and lastReseed are unchanged.
C9_GetBytesConsumes ==
  [][CallStep =>
       /\ BLen(last'.out) = last'.n
       /\ Take(Concat(last'.out, pool'), BLen(pool)) = pool
       /\ \A i \in 1..Len(last'.out) :
            /\ \A e \in served : ~Overlap(e, last'.out[i])
            /\ \A j \in 1..Len(last'.out) : i # j => ~Overlap(last'.out[i], last'.out[j])
            /\ \A j \in 1..Len(pool') : ~Overlap(last'.out[i], pool'[j])
       /\ UNCHANGED <<key, ivBase, lastReseed>>
       /\ UNCHANGED <<cfgVars, derivations, runs, timerArmed, fetches>>]_vars

\* C9 witness: a second call served from the pool the first call refilled.
C9_Witness ==
  /\ ncalls = 2
  /\ last.key # Null
  /\ last.n > 0
  /\ last.had >= last.n
  /\ pool # <<>>

\* --- properties: password handler, sampler, charset ---
Chars(s) == {s[i] : i \in 1..Len(s)}
NoRepeat(s) == \A i, j \in 1..Len(s) : i # j => s[i] # s[j]

\* C5: with the external source disabled or unconfigured, every reseed
\* installs a key derived from 64 OS-random bytes and sends no request to
\* the QRNG service, the generator is seeded once the boot run has started,
\* and a password request with a valid policy is answered 200 with at least
\* one password.
ValidPolicy(body) == BuildCharset(OptsOf(body)).ok

C5_ServesWhenUnconfigured ==
  ~Configured =>
    /\ fetches = 0
    /\ \A i \in 1..Len(derivations) : derivations[i].seed = OsSeed
    /\ Booted => Seeded
    /\ (req.pc \in {"done", "threw"} /\ ValidPolicy(req.body))
         => (res.status = 200 /\ Len(res.passwords) >= 1)

\* C6: within one derivePassword call no word of the stream yields two of
\* the indices the call takes, whether for a character position, for an
\* enforcement position or for a replacement character.
C6_WordUsedOnce ==
  drv # NoDrv =>
    \A i, j \in 1..Len(drv.used) : i # j => drv.used[i].word # drv.used[j].word

\* C8: a request with all four classes enabled and requireEachClass set is
\* answered with passwords of exactly the requested (clamped) length, each
\* holding a lowercase letter, an uppercase letter, a digit and a symbol.
AllClasses(body) ==
  /\ body.includeLower
  /\ body.includeUpper
  /\ body.includeDigits
  /\ body.includeSymbols

C8_EveryClassPresent ==
  (req.pc = "done" /\ res.status = 200 /\ AllClasses(req.body)
     /\ req.body.requireEachClass)
  => \A k \in 1..Len(res.passwords) :
       LET pw == res.passwords[k] IN
       /\ Len(pw) = ClampLength(req.body.length)
       /\ Chars(pw) \cap Chars(LOWER) # {}
       /\ Chars(pw) \cap Chars(UPPER) # {}
       /\ Chars(pw) \cap Chars(DIGITS) # {}
       /\ Chars(pw) \cap Chars(SymbolsOrDefault(req.body.symbols)) # {}

\* C7: for every base and buffer, a word w of the buffer yields an
\* index exactly when w < floor(2^W / base) * base, the index is w mod base
\* and lies in 0 .. base-1, the indices come in the order of their words,
\* and over all words of W bits every value of 0 .. base-1 is the index of
\* the same number of words; a die of `base` sides rolls (w mod base) + 1
\* from an accepted word and rolls again on a rejected one.
Limit(base) == (WordRange \div base) * base

IndexOfWord(w, base) == IndicesFromBytes(WordToBytes(w), base)

C7_SamplerUniform ==
  sOut.run =>
    LET base == sIn.base
        buf == sIn.buf
        ix == sOut.indices
        nw == Len(buf) \div WordBytes
        image == [w \in Words |-> IndexOfWord(w, base)]
    IN
    /\ \A k \in 1..nw :
         (\E j \in 1..Len(ix) : ix[j].word = k) <=> WordAt(buf, k) < Limit(base)
    /\ \A j \in 1..Len(ix) :
         /\ ix[j].word \in 1..nw
         /\ ix[j].idx = WordAt(buf, ix[j].word) % base
         /\ ix[j].idx \in 0..(base - 1)
    /\ \A i, j \in 1..Len(ix) : i < j => ix[i].word < ix[j].word
    /\ \A w \in Words :
         IF w < Limit(base) THEN image[w] = <<[idx |-> w % base, word |-> 1]>>
         ELSE image[w] = <<>>
    /\ \A v \in 0..(base - 1) :
         Cardinality({w \in Words : Len(image[w]) = 1 /\ image[w][1].idx = v})
           = WordRange \div base
    /\ nw >= 1 =>
         sOut.die = (IF WordAt(buf, 1) < Limit(base)
                       THEN (WordAt(buf, 1) % base) + 1 ELSE 0)

\* A buffer of two words whose first is the largest accepted word and whose
\* second is rejected.
C7_Witness ==
  /\ sOut.run
  /\ Len(sIn.buf) = 2 * WordBytes
  /\ WordAt(sIn.buf, 2) >= Limit(sIn.base)
  /\ sOut.indices = <<[idx |-> sIn.base - 1, word |-> 1]>>
  /\ sOut.die = sIn.base

\* C10: buildCharset fails with the empty-charset error exactly when no
\* class is enabled, with the too-small error exactly when a class is
\* enabled and fewer than two distinct characters remain, and otherwise
\* returns a string without repeated characters, of at least 2 characters,
\* holding exactly the characters of the enabled classes (lower, upper,
\* digits, the supplied or default symbols) less the ambiguous ones when
\* excludeAmbiguous is set, in the order of their first occurrence in the
\* concatenation; lowercase only with excludeAmbiguous loses only "l".
Enabled(o) ==
  (IF o.includeLower THEN LOWER ELSE <<>>)
    \o (IF o.includeUpper THEN UPPER ELSE <<>>)
    \o (IF o.includeDigits THEN DIGITS ELSE <<>>)
    \o (IF o.includeSymbols
          THEN (IF o.symbols = <<>> THEN DEFAULT_SYMBOLS ELSE o.symbols)
          ELSE <<>>)

Kept(o) ==
  IF o.excludeAmbiguous
    THEN Chars(Enabled(o)) \ {"O", "0", "I", "l", "1", "S", "5", "B", "8", "Z", "2"}
    ELSE Chars(Enabled(o))

FirstPos(s, c) == CHOOSE i \in 1..Len(s) : s[i] = c /\ \A j \in 1..(i - 1) : s[j] # c

AnyClass(o) ==
  o.includeLower \/ o.includeUpper \/ o.includeDigits \/ o.includeSymbols

C10_BuildCharset ==
  csOut.run =>
    LET o == csIn
        r == csOut.result
    IN
    /\ ~AnyClass(o)
         => (~r.ok /\ r.error = "Empty charset: select at least one class")
    /\ (AnyClass(o) /\ Cardinality(Kept(o)) < 2)
         => (~r.ok /\ r.error = "Charset too small after filters")
    /\ (AnyClass(o) /\ Cardinality(Kept(o)) >= 2)
         => /\ r.ok
            /\ NoRepeat(r.value)
            /\ Len(r.value) >= 2
            /\ Chars(r.value) = Kept(o)
            /\ \A i, j \in 1..Len(r.value) :
                 i < j => FirstPos(Enabled(o), r.value[i])
                            < FirstPos(Enabled(o), r.value[j])
    /\ (o.includeLower /\ ~o.includeUpper /\ ~o.includeDigits
          /\ ~o.includeSymbols /\ o.excludeAmbiguous)
         => (r.ok /\ Chars(r.value) = Chars(LOWER) \ {"l"}
               /\ Len(r.value) = Len(LOWER) - 1)

\* Lowercase letters and the symbols "a#Oa9#" with excludeAmbiguous: the
\* filter drops "l" and "O", the deduplication drops the second "a" and
\* the second "#".
C10_Witness ==
  /\ csOut.run
  /\ csIn = Opts(TRUE, FALSE, FALSE, TRUE, <<"a", "#", "O", "a", "9", "#">>, TRUE)
  /\ csOut.result.ok
  /\ Len(csOut.result.value) = 27
  /\ csOut.result.value[26] = "#"
  /\ csOut.result.value[27] = "9"

\* ------------------------- dice: properties ---------------------------
\* The answer to a dice request that was served
RolledOk == req.pc = "done" /\ req.kind = "roll" /\ res.status = 200

\* The sides of each die of the terms ts, in the order the dice are written
RECURSIVE SidesOf(_)
SidesOf(ts) ==
  IF ts = <<>> THEN <<>>
  ELSE [i \in 1..ts[1].n |-> ts[1].m] \o SidesOf(Tail(ts))

\* Expressions of several dice terms joined by "+": their terms as
\* written and the sum of their standalone modifiers
MultiTerm ==
  {[expr |-> <<"3", "d", "8", "+", "2", "d", "4", "+", "5">>,
    terms |-> <<[n |-> 3, m |-> 8], [n |-> 2, m |-> 4]>>, k |-> 5],
   [expr |-> <<"d", "6", "+", "d", "1">>,
    terms |-> <<[n |-> 1, m |-> 6], [n |-> 1, m |-> 1]>>, k |-> 0]}

\* C11: an expression of several dice terms joined by "+" is answered
\* with one die value per written die, N1 + N2 in all, the first N1 in
\* [1, M1] and the next N2 in [1, M2], and a total equal to the sum of the
\* die values plus the standalone modifiers.
C11_EachTermRolled ==
  \A x \in MultiTerm :
    RolledOk /\ req.body.expression = x.expr =>
      \A i \in 1..Len(res.rolls) :
        LET r == res.rolls[i] IN
        /\ Len(r.rolls) = Len(SidesOf(x.terms))
        /\ \A j \in 1..Len(r.rolls) : r.rolls[j] \in 1..SidesOf(x.terms)[j]
        /\ r.total = Sum(r.rolls) + x.k

\* Expressions of one dice term NdM+K or NdM-K: count, sides and signed
\* modifier as written
SingleTerm ==
  {[expr |-> <<"2", "d", "6", "+", "3">>, n |-> 2, m |-> 6, k |-> 3],
   [expr |-> <<"2", "d", "6", "-", "3">>, n |-> 2, m |-> 6, k |-> 0 - 3],
   [expr |-> <<"3", "d", "1", "-", "3">>, n |-> 3, m |-> 1, k |-> 0 - 3]}

\* C12: a single term NdM+K or NdM-K is answered with exactly N die values,
\* each in [1, M], one breakdown entry whose subtotal is their sum plus the
\* signed modifier, within [N + K, N * M + K], and a total equal to the sum
\* of the breakdown subtotals.
C12_SingleTerm ==
  \A x \in SingleTerm :
    RolledOk /\ req.body.expression = x.expr =>
      \A i \in 1..Len(res.rolls) :
        LET r == res.rolls[i] IN
        /\ Len(r.rolls) = x.n
        /\ \A j \in 1..Len(r.rolls) : r.rolls[j] \in 1..x.m
        /\ Len(r.breakdown) = 1
        /\ r.breakdown[1].rolls = r.rolls
        /\ r.breakdown[1].subtotal = Sum(r.rolls) + x.k
        /\ r.breakdown[1].subtotal \in (x.n + x.k)..(x.n * x.m + x.k)
        /\ r.total = Sum([b \in 1..Len(r.breakdown) |-> r.breakdown[b].subtotal])

\* 2d6-3 answered with a 6 and a 1, total 4
C12_Witness ==
  /\ RolledOk
  /\ req.body.expression = <<"2", "d", "6", "-", "3">>
  /\ res.rolls[1].rolls = <<6, 1>>
  /\ res.rolls[1].total = 4

\* Expressions with a dice term out of range, and the failure of each
OutOfRange ==
  {[expr |-> <<"0", "d", "6">>, error |-> "Invalid number of dice"],
   [expr |-> <<"1", "0", "1", "d", "6">>, error |-> "Invalid number of dice"],
   [expr |-> <<"d", "0">>, error |-> "Invalid dice size"],
   [expr |-> <<"d", "1", "0", "0", "1">>, error |-> "Invalid dice size"]}

\* C13: a dice term whose sides are outside [1, 1000] fails with the
\* invalid-size error and one whose written count is outside [1, 100] with
\* the invalid-count error; no die is rolled and no roll result is returned.
C13_OutOfRangeFails ==
  \A x \in OutOfRange :
    req.pc # "idle" /\ req.kind = "roll" /\ req.body.expression = x.expr =>
      /\ req.pc = "done"
      /\ res.status = 400
      /\ res.message = x.error
      /\ res.rolls = <<>>

\* Expressions of standalone modifiers and no dice, with the sum of the
\* modifiers; and expressions with neither dice nor numbers
ModifiersOnly ==
  {[expr |-> <<"5", "-", "5">>, k |-> 0],
   [expr |-> <<"5">>, k |-> 5]}
NothingFound == {<<"x">>}
NoDiceFound == "No valid dice notation found in expression"

\* C14: the no-dice-found failure is the answer if and only if the
\* expression has neither a dice term nor a standalone number; modifiers
\* without dice, also when they sum to 0, are answered with their sum as
\* the total.
C14_NoDiceFoundIff ==
  req.pc = "done" /\ req.kind = "roll" /\ req.body.expression # <<>> =>
    /\ res.message = NoDiceFound <=> req.body.expression \in NothingFound
    /\ req.body.expression \in NothingFound => res.status = 400
    /\ \A x \in ModifiersOnly :
         req.body.expression = x.expr =>
           /\ res.status = 200
           /\ \A i \in 1..Len(res.rolls) :
                res.rolls[i].total = x.k /\ res.rolls[i].rolls = <<>>

\* Expressions whose dice all have one side, with count plus modifiers
OneSided ==
  {[expr |-> <<"d", "1">>, total |-> 1],
   [expr |-> <<"3", "d", "1", "-", "3">>, total |-> 0]}

\* C15: a die of one side always rolls 1 and draws no entropy: a request
\* whose dice all have one side is answered at once, every die value 1, the
\* total the dice count plus the modifiers, and the pool, the counter and
\* the number of getBytes calls are left as they were.
C15_OneSideDrawsNothing ==
  [][\A x \in OneSided :
       req.pc = "idle" /\ req'.pc # "idle" /\ req'.body.expression = x.expr =>
         /\ req'.pc = "done"
         /\ res'.status = 200
         /\ Len(res'.rolls) = ClampRolls(req'.body.rolls)
         /\ \A i \in 1..Len(res'.rolls) :
              /\ res'.rolls[i].total = x.total
              /\ \A j \in 1..Len(res'.rolls[i].rolls) : res'.rolls[i].rolls[j] = 1
         /\ pool' = pool
         /\ counter' = counter
         /\ ncalls' = ncalls]_vars

\* "d1" rolled twice on a seeded generator, no getBytes call made
C15_Witness ==
  /\ RolledOk
  /\ req.body.expression = <<"d", "1">>
  /\ Len(res.rolls) = 2
  /\ res.rolls[2].total = 1
  /\ Seeded
  /\ ncalls = 0

\* ------------------------- QRNG seed helpers ----------------------------
\* A block of the response is [binary, decimal]: binary the characters of
\* item.binary (empty where it is absent or not a string), decimal the
\* value of Number(item.decimal) where that is a non-negative integer and
\* -1 where it is not (absent, NaN, negative, fractional).
Block(binary, decimal) == [binary |-> binary, decimal |-> decimal]

\* String.prototype.trim
Trim(b) ==
  LET inked == {i \in 1..Len(b) : b[i] # " "} IN
  IF inked = {} THEN <<>>
  ELSE SubSeq(b, CHOOSE i \in inked : \A j \in inked : i <= j,
                 CHOOSE i \in inked : \A j \in inked : i >= j)

\* b && /^[01]+$/.test(b)
IsBits(b) == b # <<>> /\ \A i \in 1..Len(b) : b[i] \in {"0", "1"}

Pow2(n) == 2 ^ n

\* Number.prototype.toString(2) of a non-negative integer
ToString2(d) ==
  LET w == CHOOSE n \in 1..32 : d < Pow2(n) /\ (n = 1 \/ d >= Pow2(n - 1))
  IN [i \in 1..w |-> IF (d \div Pow2(w - i)) % 2 = 1 THEN "1" ELSE "0"]

\* String.prototype.padStart(width, '0'): a longer string is left as it is
PadStart(b, width) == [i \in 1..Max(width - Len(b), 0) |-> "0"] \o b

\* The block is skipped by `continue`
Skipped(item) == ~IsBits(Trim(item.binary)) /\ item.decimal < 0

\* The bits one block adds to `bits`
BlockBits(item, bitsPerBlock) ==
  IF IsBits(Trim(item.binary)) THEN PadStart(Trim(item.binary), bitsPerBlock)
  ELSE IF item.decimal < 0 THEN <<>>
  ELSE PadStart(ToString2(item.decimal), bitsPerBlock)

\* bits after the blocks lo..hi: `bits += b` for each in turn
RECURSIVE BitsOf(_, _, _, _)
BitsOf(blocks, bitsPerBlock, lo, hi) ==
  IF lo > hi THEN <<>>
  ELSE IF lo = hi THEN BlockBits(blocks[lo], bitsPerBlock)
  ELSE BitsOf(blocks, bitsPerBlock, lo, (lo + hi) \div 2)
         \o BitsOf(blocks, bitsPerBlock, ((lo + hi) \div 2) + 1, hi)

\* parseInt(bits.slice(i, i + 8), 2)
ParseByte(bits, i) ==
  Sum([k \in 1..8 |-> IF bits[i + k] = "1" THEN Pow2(8 - k) ELSE 0])

\* The second loop: one byte for every 8 bits that are complete
BytesOfBits(bits) == [j \in 1..(Len(bits) \div 8) |-> ParseByte(bits, 8 * (j - 1))]

PackBlocksToBytes(blocks, bitsPerBlock) ==
  BytesOfBits(BitsOf(blocks, bitsPerBlock, 1, Len(blocks)))

\* Math.ceil(seedBytes * 8 / QRNG_BITS_PER_BLOCK)
BlocksFor(seedBytes, bitsPerBlock) == CeilDiv(seedBytes * 8, bitsPerBlock)

\* Buffer.subarray(0, n)
Subarray(buf, n) == SubSeq(buf, 1, Min(n, Len(buf)))

\* getQrngSeedBytes(seedBytes) once the service has answered 200 with
\* random_numbers = arr: 'QRNG returned no data' for an empty array, else
\* the packed blocks cut to seedBytes
FetchSeed(seedBytes, bitsPerBlock, arr) ==
  IF Len(arr) = 0 THEN [threw |-> TRUE, seed |-> <<>>, packed |-> <<>>]
  ELSE [threw |-> FALSE,
        seed |-> Subarray(PackBlocksToBytes(arr, bitsPerBlock), seedBytes),
        packed |-> PackBlocksToBytes(arr, bitsPerBlock)]

\* Blocks the service may send for a width: of that width, shorter, with
\* blanks around, as a decimal only, malformed, and wider than asked.
BlockShapes(bitsPerBlock) ==
  {Block([i \in 1..bitsPerBlock |-> "1"], -1),
   Block([i \in 1..bitsPerBlock |-> IF i % 2 = 1 THEN "1" ELSE "0"], -1),
   Block(<<"1">>, -1),
   Block(<<" ", "1", "0", "1", " ">>, -1),
   Block(<<>>, 5),
   Block(<<>>, Pow2(bitsPerBlock) - 1),
   Block(<<"x">>, -1),
   Block(<<"1", "2">>, 3),
   Block(<<>>, Pow2(bitsPerBlock)),
   Block([i \in 1..(bitsPerBlock + 1) |-> "1"], -1)}

SeedSizes == {1, 2, 12, SeedBytes}
BlockWidths == {4, 8, 10, 16}

\* Responses: empty, or the blocks asked for (or one more), all of one
\* shape but for one block at either end.
PackInputs ==
  {[seedBytes |-> s, bitsPerBlock |-> w, arr |-> <<>>] :
     s \in SeedSizes, w \in BlockWidths}
  \cup
  UNION {{[seedBytes |-> s, bitsPerBlock |-> w,
           arr |-> [i \in 1..(BlocksFor(s, w) + extra) |->
                      IF i = (IF atEnd THEN BlocksFor(s, w) + extra ELSE 1)
                        THEN one ELSE rest]] :
            one \in BlockShapes(w), rest \in BlockShapes(w),
            extra \in {0, 1}, atEnd \in BOOLEAN} :
         s \in SeedSizes, w \in BlockWidths}

PackRun ==
  /\ pkOut = NotRun
  /\ pkOut' = [run |-> TRUE] @@ FetchSeed(pkIn.seedBytes, pkIn.bitsPerBlock, pkIn.arr)
  /\ UNCHANGED <<cfgVars, genVars, osDrawn, derivations, runs, timerArmed,
                 callVars, fetches, reqVars, authVars, sIn, sOut, csIn, csOut,
                 pkIn, hkIn, hkOut>>

\* getQrngSeedBytes applied to a response of the service
InitPack ==
  /\ qrngEnabled = TRUE
  /\ qrngApiKey = "k"
  /\ GenInit
  /\ ReqIdle
  /\ AuthIdle
  /\ SamplerIdle
  /\ CharsetIdle
  /\ pkIn \in PackInputs
  /\ pkOut = NotRun
  /\ HkdfIdle

SpecPack == InitPack /\ [][PackRun]_vars

\* ------------------------- QRNG seed helpers: properties ----------------
\* The value a block carries: its binary digits read as a number, else
\* its decimal
BlockValue(item) ==
  IF IsBits(Trim(item.binary))
    THEN Sum([k \in 1..Len(Trim(item.binary)) |->
                IF Trim(item.binary)[k] = "1" THEN Pow2(Len(Trim(item.binary)) - k) ELSE 0])
    ELSE item.decimal

\* The accepted blocks of a response, in order
AcceptedBlocks(arr) == SelectSeq(arr, LAMBDA item : ~Skipped(item))

\* Bit p (from 0) of the stream in which every accepted block has exactly
\* width bits, its value left-padded with zeros
StreamBit(acc, width, p) ==
  (BlockValue(acc[(p \div width) + 1]) \div Pow2(width - 1 - (p % width))) % 2

\* C16: whenever fetchSeed(seedBytes) returns a value, the seed has exactly
\* seedBytes bytes, whatever the width and whatever mix of well-formed and
\* malformed blocks the response holds.
C16_SeedHasSeedBytes ==
  pkOut.run /\ ~pkOut.threw => Len(pkOut.seed) = pkIn.seedBytes

\* C17: k accepted blocks of width bitsPerBlock are packed to exactly
\* floor(k * bitsPerBlock / 8) bytes, byte j holding bits 8j..8j+7 of the
\* stream of the blocks at exactly bitsPerBlock bits each, whatever the
\* value of a block; the bits left over are dropped.
C17_FixedWidthPacking ==
  pkOut.run /\ ~pkOut.threw =>
    LET acc == AcceptedBlocks(pkIn.arr) IN
    /\ Len(pkOut.packed) = (Len(acc) * pkIn.bitsPerBlock) \div 8
    /\ \A j \in 1..Len(pkOut.packed) :
         pkOut.packed[j] =
           Sum([k \in 1..8 |->
                  StreamBit(acc, pkIn.bitsPerBlock, 8 * (j - 1) + k - 1) * Pow2(8 - k)])

\* ------------------------- admin route ----------------------------------
\* Values of the x-api-key header of a request, "" where it is missing
ApiKeyHeaders == {"", "a", "b"}

\* requireApiKey(req, res, next): the status it answers with, 0 where it
\* calls next()
RequireApiKey(providedKey) ==
  IF adminKey = "" THEN 500
  ELSE IF providedKey = "" THEN 401
  ELSE IF providedKey # adminKey THEN 403
  ELSE 0

\* The route of adminController.reseedNow carries requiresAuth: true, and
\* the router of part_000 honours it; the router of server.js calls the
\* handler of every route it finds.
RequiresAuth == TRUE
RouterChecks == serverFile = "part_000" /\ RequiresAuth

\* POST to the admin reseed endpoint with x-api-key = providedKey, through
\* the generic router middleware to adminController.reseedNow
AdminRoute(providedKey) ==
  /\ Booted
  /\ Len(runs) < MaxRuns
  /\ UNCHANGED <<reqVars, pureVars, adminKey, serverFile, cfgVars, osDrawn,
                 callVars, timerArmed>>
  /\ IF RouterChecks /\ RequireApiKey(providedKey) # 0
       THEN /\ areq' = [status |-> RequireApiKey(providedKey), ran |-> FALSE,
                        key |-> providedKey]
            /\ UNCHANGED <<genVars, derivations, runs, fetches>>
       ELSE /\ areq' = [status |-> 0, ran |-> TRUE, key |-> providedKey]
            /\ StartFetch("admin")

InitAdmin ==
  /\ qrngEnabled \in BOOLEAN
  /\ qrngApiKey \in {"", "k"}
  /\ GenInit
  /\ ReqIdle
  /\ PureIdle
  /\ adminKey \in {"", "a"}
  /\ serverFile \in {"server.js", "part_000"}
  /\ areq = NoAreq

NextAdmin ==
  \/ BootStart
  \/ TimerFire
  \/ \E providedKey \in ApiKeyHeaders : AdminRoute(providedKey)
  \/ \E r \in RunIds : FetchOk(r)
  \/ \E r \in RunIds : FetchFail(r)
  \/ \E r \in RunIds : BootFallback(r)
  \/ \E r \in RunIds : Install(r)

SpecAdmin == InitAdmin /\ [][NextAdmin]_vars

\* ------------------------- admin route: properties ----------------------
\* A request to the admin reseed endpoint is answered in this step
AdminAnswered == areq' # areq

\* C18: adminController.reseedNow runs only for a request whose x-api-key
\* equals the configured, non-empty ADMIN_API_KEY; every other request to
\* the endpoint is answered 500 (no key configured), 401 (no header) or 403
\* (wrong key) and leaves the generator as it was.
C18_ReseedNeedsKey ==
  [][AdminAnswered =>
       IF adminKey # "" /\ areq'.key = adminKey
         THEN areq'.ran
         ELSE /\ ~areq'.ran
              /\ areq'.status = (IF adminKey = "" THEN 500
                                 ELSE IF areq'.key = "" THEN 401 ELSE 403)
              /\ UNCHANGED <<genVars, derivations, runs, fetches>>]_vars

\* ------------------------- boot: liveness -------------------------------
\* The fetch of run r returns or throws
FetchReturns(r) == r \in RunIds /\ (FetchOk(r) \/ FetchFail(r))

\* The continuation of run r after its await: the catch block of the boot
\* IIFE, or csprng.reseed(seed)
RunContinues(r) == r \in RunIds /\ (BootFallback(r) \/ Install(r))

\* The module is loaded, so the boot IIFE runs; every fetch returns or
\* throws in the end; the event loop runs every continuation that is ready.
Fairness ==
  /\ WF_vars(BootStart)
  /\ \A r \in 1..MaxRuns : WF_vars(FetchReturns(r)) /\ WF_vars(RunContinues(r))

SpecLive == Init /\ [][Next]_vars /\ Fairness

\* C19: from process start the generator is seeded in the end, whether the
\* first fetch succeeds or fails, and once seeded it stays seeded: no later
\* reseed run, successful or failed, takes key or ivBase away.
C19_SeededInTheEnd == <>Seeded /\ [](Seeded => []Seeded)

\* The boot fetch failed, a later run failed too, and the generator is seeded
C19_Witness ==
  /\ Seeded
  /\ Len(runs) >= 2
  /\ runs[1].kind = "boot" /\ runs[1].err
  /\ \E r \in RunIds : r > 1 /\ runs[r].pc = "failed"

\* ------------------------- hkdfSha256 -----------------------------------
\* The length of an HMAC-SHA256 digest, t.length
HashLen == 32

\* Buffer.from([i]): the one byte that stands for i
IndexByte(i) == i % 256

\* hkdfSha256(ikm, salt, info, length): the loop runs while generated <
\* length, one digest per pass with i = 1, 2, ..; the result is the blocks
\* cut to length.  indices are the index bytes hashed, pass by pass.
HkdfSha256(length) ==
  LET passes == IF length > 0 THEN CeilDiv(length, HashLen) ELSE 0 IN
  [threw |-> FALSE,
   len |-> Min(passes * HashLen, Max(length, 0)),
   indices |-> [i \in 1..passes |-> IndexByte(i)]]

\* Lengths asked for: short ones, and those around 255 digests
HkdfLengths == (0..60) \cup (8150..8200)

HkdfRun ==
  /\ hkOut = NotRun
  /\ hkOut' = [run |-> TRUE] @@ HkdfSha256(hkIn.length)
  /\ UNCHANGED <<cfgVars, genVars, osDrawn, derivations, runs, timerArmed,
                 callVars, fetches, reqVars, authVars, sIn, sOut, csIn, csOut,
                 pkIn, pkOut, hkIn>>

\* hkdfSha256 applied to a length
InitHkdf ==
  /\ qrngEnabled = FALSE
  /\ qrngApiKey = ""
  /\ GenInit
  /\ ReqIdle
  /\ AuthIdle
  /\ SamplerIdle
  /\ CharsetIdle
  /\ PackIdle
  /\ hkIn \in {[length |-> n] : n \in HkdfLengths}
  /\ hkOut = NotRun

SpecHkdf == InitHkdf /\ [][HkdfRun]_vars

PoolExtents == {pool[i] : i \in 1..Len(pool)}

\* The keystream blocks of the installed key that were generated so far
\* are those of the counter values below counter
BelowCounter(e) == e.k = key => e.hi < BlockBytes * counter

\* C21: within one key epoch counter only increases and every counter
\* value makes at most one 16-byte keystream block: the keystream of the
\* installed key that is pooled or was served lies below counter, no byte
\* of it is both pooled and served or pooled twice, and a refill adds the
\* blocks of the counter values from the old counter up to the new one and
\* no others, whatever the interleaving of getBytes calls and reseeds.
C21_CounterUsedOnce ==
  /\ [](Seeded =>
          /\ \A e \in served \cup PoolExtents : BelowCounter(e)
          /\ \A e \in PoolExtents : e.k = key /\ \A f \in served : ~Overlap(e, f)
          /\ \A i, j \in 1..Len(pool) : i # j => ~Overlap(pool[i], pool[j]))
  /\ [][/\ key' = key => counter' >= counter
        /\ (CallStep /\ Seeded /\ counter' > counter) =>
             /\ BLen(last'.out) + BLen(pool') - BLen(pool)
                  = BlockBytes * (counter' - counter)
             /\ \A e \in {last'.out[i] : i \in 1..Len(last'.out)} \cup PoolExtents' :
                  /\ e.k = key
                  /\ e.hi < BlockBytes * counter'
                  /\ e.lo >= BlockBytes * counter \/ \E f \in PoolExtents : Overlap(e, f)]_vars

\* Two refills under one key: the second call found pooled keystream of
\* the first and had to refill again
C21_Witness ==
  /\ ncalls = 2
  /\ Seeded
  /\ last.key = key
  /\ last.had > 0 /\ last.had < last.n
  /\ counter > RefillBlocks(RefillMin + 4)

\* The keystream of the installed key that is pooled or was served
OfInstalledKey == {e \in served \cup PoolExtents : e.k = key /\ e.v = ivBase}

\* Every counter value below counter was spent on a block of the installed
\* key: its keystream, pooled or served, runs from byte 0 to the last byte
\* of block counter - 1 without a gap
BlocksMade ==
  counter > 0 =>
    /\ \E e \in OfInstalledKey : e.hi = BlockBytes * counter - 1
    /\ \A e \in OfInstalledKey :
         e.lo = 0 \/ \E f \in OfInstalledKey : f.hi + 1 = e.lo

\* C22: key and ivBase are both absent or both present and come from the
\* same derivation; the pool and the counter a getBytes call meets belong
\* to the key it meets (pooled bytes are keystream of that key, every
\* counter value below counter was spent on a block of that key, and with
\* no key counter is 0 and nothing stays pooled between calls); and the
\* call returns bytes of that key only.
C22_NoHalfUpdatedState ==
  /\ []((key = Null) <=> (ivBase = Null))
  /\ [](~Seeded => counter = 0 /\ pool = <<>>)
  /\ [](Seeded =>
          /\ key = Len(derivations) /\ ivBase = key
          /\ \A e \in PoolExtents : e.k = key /\ e.v = ivBase
          /\ BlocksMade)
  /\ [][CallStep =>
          /\ last'.key = key
          /\ \A i \in 1..Len(last'.out) :
               last'.out[i].k = key /\ last'.out[i].v = ivBase]_vars

\* A call under the second key, after keystream of the first was served,
\* with keystream of the second left in the pool
C22_Witness ==
  /\ Len(derivations) = 2
  /\ ncalls = 2
  /\ last.key = 2 /\ key = 2
  /\ \E e \in served : e.k = 1
  /\ pool # <<>>
  /\ counter > 0

\* The number of bytes in a set of runs of bytes
RECURSIVE BytesIn(_)
BytesIn(es) ==
  IF es = {} THEN 0
  ELSE LET e == CHOOSE x \in es : TRUE IN ExtLen(e) + BytesIn(es \ {e})

\* The bytes served since the last reseed: those of the installed key
ServedSinceReseed == BytesIn({e \in served : e.k = key})

\* C23: seeded, getBytes(n) does not refill when the pool holds n bytes or
\* more, and otherwise refills once, counter advancing by
\* ceil(max(4096, n - pool.length) / 16) and the pool growing by 16 bytes
\* for each step of the counter; so in every seeded state 16 * counter is
\* the number of bytes served since the last reseed plus pool.length.
C23_RefillPolicy ==
  /\ [](Seeded => BlockBytes * counter = ServedSinceReseed + BLen(pool))
  /\ [][(CallStep /\ Seeded) =>
          /\ counter' = (IF BLen(pool) >= last'.n THEN counter
                         ELSE counter + CeilDiv(Max(RefillMin, last'.n - BLen(pool)),
                                                BlockBytes))
          /\ BLen(pool') + last'.n = BLen(pool) + BlockBytes * (counter' - counter)]_vars

\* A call of 4 bytes refilled the empty pool, then a call for more than
\* the pool held refilled again: two default refills under one key
C23_Witness ==
  /\ ncalls = 2
  /\ Seeded
  /\ last.key = key
  /\ last.n = RefillMin + 4
  /\ last.had = RefillMin - 4
  /\ counter = 2 * CeilDiv(RefillMin, BlockBytes)

\* C24: while no key is installed getBytes(n) is never held up and serves
\* n OS-random bytes: it draws exactly the bytes the pool lacks, so that a
\* pool that was empty is empty after the call, and it leaves counter at 0
\* and key and ivBase absent.
C24_UnseededServesOsBytes ==
  /\ []((~Seeded /\ Booted /\ ncalls < MaxCalls) =>
          \A n \in CallSizes : ENABLED Call(n))
  /\ [][(CallStep /\ ~Seeded) =>
          /\ BLen(last'.out) = last'.n
          /\ \A i \in 1..Len(last'.out) :
               last'.out[i].k = Null /\ last'.out[i].v = Null
          /\ osDrawn' = osDrawn + Max(last'.n - BLen(pool), 0)
          /\ BLen(pool') = BLen(pool) + Max(last'.n - BLen(pool), 0) - last'.n
          /\ pool = <<>> => pool' = <<>>
          /\ counter' = 0
          /\ key' = Null /\ ivBase' = Null]_vars

\* Two calls served from the OS while the boot fetch was pending
C24_Witness ==
  /\ ~Seeded
  /\ ncalls = 2
  /\ last.key = Null
  /\ last.n = RefillMin + 4
  /\ osDrawn > RefillMin + 4
  /\ \E r \in RunIds : runs[r].kind = "boot" /\ runs[r].pc = "fetching"

\* --- properties: password alphabet ---
\* The working alphabet buildCharset makes for the policy of a request
WorkingAlphabet(body) == Chars(BuildCharset(OptsOf(body)).value)

\* C25: every character of a returned password belongs to the working
\* alphabet buildCharset made for the policy of the request; with
\* excludeAmbiguous set, none is one of O 0 I l 1 S 5 B 8 Z 2, also where
\* the class enforcement has overwritten a position.
C25_PasswordWithinAlphabet ==
  (req.pc = "done" /\ res.status = 200) =>
    \A k \in 1..Len(res.passwords) :
      /\ Chars(res.passwords[k]) \subseteq WorkingAlphabet(req.body)
      /\ req.body.excludeAmbiguous => Chars(res.passwords[k]) \cap Amb = {}

\* --- properties: failed reseed runs ---
\* Run r ends in failure in this step
FailsNow(r) == runs[r].pc # "failed" /\ runs'[r].pc = "failed"
SomeRunFailed == \E r \in RunIds : runs[r].pc = "failed"

\* C26: a run started by the timer or by the administrative trigger that
\* ends in failure leaves the generator as it was: the failure changes
\* neither key, ivBase, counter, pool nor lastReseed, the run installs
\* nothing, then or later; the timer, once armed, stays armed; and getBytes
\* calls made after the failure serve keystream of the key that was
\* installed before.
C26_FailedRunLeavesGenerator ==
  /\ [][\A r \in RunIds :
          FailsNow(r) =>
            /\ runs[r].kind \in {"timer", "admin"}
            /\ UNCHANGED <<key, ivBase, counter, pool, lastReseed>>
            /\ UNCHANGED derivations
            /\ runs'[r].resp = (IF runs[r].kind = "admin" THEN 500 ELSE 0)]_vars
  /\ [](\A r \in RunIds : runs[r].pc = "failed" => ~InstalledBy(r))
  /\ [][timerArmed => timerArmed']_vars
  /\ [][(CallStep /\ SomeRunFailed /\ Seeded) =>
          /\ key' = key /\ ivBase' = ivBase
          /\ BLen(last'.out) = last'.n
          /\ \A i \in 1..Len(last'.out) : last'.out[i].k = key]_vars

\* A timer run failed on a seeded generator that holds pooled keystream,
\* the timer still armed
C26_Witness ==
  /\ \E r \in RunIds : runs[r].kind = "timer" /\ runs[r].pc = "failed"
  /\ Seeded
  /\ pool # <<>>
  /\ ncalls >= 1
  /\ last.key = key
  /\ timerArmed

====
